---- MODULE Spec2Model ----
(***************************************************************************)
(* A model of retail-flows (src/retail-flows/__main__.py): the business-   *)
(* day generator daily(), the sqlite-backed Client (retail_track,          *)
(* last_update, needs_update) and the batch loop of main().                *)
(*                                                                         *)
(* Calendar dates are day numbers: day 0 is Monday 2016-01-11, so that     *)
(* datetime.weekday() of day d is d % 7 (0 = Monday ... 6 = Sunday) and    *)
(* the program's t0 = datetime(2016, 1, 15), a Friday, is day 4.           *)
(***************************************************************************)
EXTENDS Integers, Sequences, FiniteSets, Bags, TLC

VARIABLES
    dStart, dEnd, dT, dOut, dPc,          \* daily(): arguments, local t, yielded dates, position
    rtat, disk, call,                     \* Client: table as the connection sees it, committed table, last call
    mN, mCoverage, mT1, mUp,              \* main(): --batch-size, coverage list, t1, upstream data
    mI, mJ, mBody, mK, mCalls, mRequested, mCrashes, mPc

dailyVars == <<dStart, dEnd, dT, dOut, dPc>>
storeVars == <<rtat, disk, call>>
mainVars  == <<mN, mCoverage, mT1, mUp, mI, mJ, mBody, mK, mCalls, mRequested, mCrashes, mPc>>
vars      == <<dailyVars, storeVars, mainVars>>

(***************************************************************************)
(* Bounds of the model.                                                    *)
(***************************************************************************)
MaxDay     == 16   \* daily() is explored for start, end in 0..MaxDay
MaxSpan    == 4    \* main(): t1 lies at most MaxSpan days after t0
MaxBatch   == 3    \* main(): --batch-size in 1..MaxBatch
MaxCrashes == 2    \* main(): at most MaxCrashes interrupted runs before the completing one
MaxRows    == 2    \* Client: an upstream response carries at most MaxRows rows

\* t0: Final[datetime] = datetime(2016, 1, 15), a Friday.
T0Day == 4

(***************************************************************************)
(* daily(t0, t1)                                                           *)
(***************************************************************************)
\* datetime.weekday(): Monday is 0, Sunday is 6.
Weekday(d) == d % 7

\* while t <= t1
DailyCondNe(t, t1) == t # t1 + 1
DailyCond(t, t1) == t <= t1

\* if weekday == 5 or weekday == 6: t += timedelta(days=7 - weekday)
SkipWeekendOffByOne(t) ==
    IF Weekday(t) = 5 \/ Weekday(t) = 6 THEN t + (6 - Weekday(t)) ELSE t
SkipWeekend(t) ==
    IF Weekday(t) = 5 \/ Weekday(t) = 6 THEN t + (7 - Weekday(t)) ELSE t

DailyInit ==
    /\ dStart \in 0..MaxDay
    /\ dEnd \in 0..MaxDay
    /\ dT = dStart
    /\ dOut = <<>>
    /\ dPc = "loop"

\* One iteration of the while loop: skip a weekend, yield t, advance one day.
DailyYield ==
    /\ dPc = "loop"
    /\ DailyCond(dT, dEnd)
    /\ dOut' = Append(dOut, SkipWeekend(dT))
    /\ dT' = SkipWeekend(dT) + 1
    /\ UNCHANGED <<dStart, dEnd, dPc>>

\* The loop condition fails: the generator is exhausted (StopIteration).
DailyReturn ==
    /\ dPc = "loop"
    /\ ~DailyCond(dT, dEnd)
    /\ dPc' = "done"
    /\ UNCHANGED <<dStart, dEnd, dT, dOut>>

\* The whole generator run as a sequence, as list(daily(t0, t1)) computes it.
RECURSIVE DailyFrom(_, _)
DailyFrom(t, t1) ==
    IF DailyCond(t, t1)
    THEN <<SkipWeekend(t)>> \o DailyFrom(SkipWeekend(t) + 1, t1)
    ELSE <<>>
Daily(t0, t1) == DailyFrom(t0, t1)

(***************************************************************************)
(* Dates as values and as text.  A datetime is [day, sec] (sec: seconds    *)
(* since midnight).  A text is [fmt, day, sec]: the format it was written  *)
(* in and the fields that format carries.                                  *)
(***************************************************************************)
YMD == "%Y-%m-%d"
ISO == "%Y-%m-%d %H:%M:%S"

DT(d) == [day |-> d, sec |-> 0]

\* t.strftime('%Y-%m-%d'): the time of day is not written.
Strftime(t) == [fmt |-> YMD, day |-> t.day, sec |-> 0]

\* sqlite3's default adapter for a datetime parameter: t.isoformat(" ").
AdaptDatetime(t) == [fmt |-> ISO, day |-> t.day, sec |-> t.sec]

\* datetime.strptime(s, '%Y-%m-%d'): a text with a time of day leaves
\* unconverted data and raises ValueError.
StrptimeOk(s) == s.fmt = YMD
Strptime(s) == [day |-> s.day, sec |-> 0]

\* SQLite's comparison of two TEXT values (memcmp): zero-padded dates compare
\* by day; "2016-01-15" is a proper prefix of "2016-01-15 00:00:00".
TextLess(a, b) ==
    \/ a.day < b.day
    \/ a.day = b.day /\ a.fmt = YMD /\ b.fmt = ISO
    \/ a.day = b.day /\ a.fmt = ISO /\ b.fmt = ISO /\ a.sec < b.sec

(***************************************************************************)
(* Row(cols) and the rtat table.  The table is a bag of rows: what makes   *)
(* it hold one row per key is the statement that writes it.                *)
(***************************************************************************)
Tickers   == {"A", "B"}
StoreDays == {T0Day, T0Day + 3}
\* (activity, sentiment) pairs an upstream row may carry
Values    == { <<1, -1>>, <<2, 1>> }

\* A row of datatable.data: [date, ticker, activity, sentiment].
Cols == { [date |-> Strftime(DT(d)), ticker |-> k, activity |-> v[1], sentiment |-> v[2]] :
            d \in StoreDays, k \in Tickers, v \in Values }

\* Row.__init__: cols[0] is parsed to a datetime, cols[1] kept, cols[2] and
\* cols[3] converted with float() and int() (numbers here, so unchanged).
Row(cols) ==
    [date |-> Strptime(cols.date), name |-> cols.ticker,
     activity |-> cols.activity, sentiment |-> cols.sentiment]

\* The parameters (row.date, row.name, row.activity, row.sentiment) as bound by
\* sqlite3: the datetime goes through the default adapter.
Bind(row) ==
    [date |-> AdaptDatetime(row.date), ticker |-> row.name,
     activity |-> row.activity, sentiment |-> row.sentiment]

SameKey(r, s) == r.date = s.date /\ r.ticker = s.ticker

\* INSERT OR REPLACE INTO rtat ... under PRIMARY KEY (date, ticker): the rows in
\* conflict with the new one are deleted, then the new row is inserted.
PlainInsert(tbl, r) == tbl (+) SetToBag({r})
InsertOrIgnore(tbl, r) ==
    IF \E s \in BagToSet(tbl) : SameKey(s, r) THEN tbl ELSE tbl (+) SetToBag({r})
InsertOrReplace(tbl, r) ==
    LET keep == { s \in BagToSet(tbl) : ~SameKey(s, r) }
    IN  [s \in keep |-> tbl[s]] (+) SetToBag({r})

\* for row in rows: cur.execute(INSERT OR REPLACE ...), from row k on.
RECURSIVE InsertAll(_, _, _)
InsertAll(tbl, rows, k) ==
    IF k > Len(rows) THEN tbl
    ELSE InsertAll(InsertOrReplace(tbl, Bind(Row(rows[k]))), rows, k + 1)

(***************************************************************************)
(* The JSON body of the RTAT endpoint, as far as retail_track looks at it. *)
(***************************************************************************)
\* top: the body is a JSON object or not; datatable: its 'datatable' member is
\* absent, an object, or something else; data: that object's 'data' member is
\* absent or a list of rows.
Body(top, datatable, data, rows) ==
    [top |-> top, datatable |-> datatable, data |-> data, rows |-> rows]

RECURSIVE SeqsUpTo(_, _)
SeqsUpTo(S, n) ==
    IF n = 0 THEN { <<>> }
    ELSE LET shorter == SeqsUpTo(S, n - 1)
         IN  shorter \cup { Append(q, x) : q \in shorter, x \in S }

Bodies ==
    { Body("other", "absent", "absent", <<>>),
      Body("dict", "absent", "absent", <<>>),
      Body("dict", "other", "absent", <<>>),
      Body("dict", "dict", "absent", <<>>) }
    \cup { Body("dict", "dict", "list", rows) : rows \in SeqsUpTo(Cols, MaxRows) }

\* Lines 217-227: the two isinstance checks, each followed by a .get that
\* yields None for a missing key, then map(Row, body) over the result.
Envelope(body) ==
    IF body.top # "dict"
    THEN [exc |-> "ValueError", msg |-> "missing 'datatable' in response", rows |-> <<>>]
    ELSE IF body.datatable # "dict"
    THEN [exc |-> "ValueError", msg |-> "missing 'data' in response datatable", rows |-> <<>>]
    ELSE IF body.data # "list"
    THEN [exc |-> "TypeError", msg |-> "'NoneType' object is not iterable", rows |-> <<>>]
    ELSE [exc |-> "none", msg |-> "", rows |-> body.rows]

(***************************************************************************)
(* Client: the calls made on one client, each a whole method call.  call   *)
(* records the last call: its arguments, whether it issued the HTTP        *)
(* request, the body it received, and how it ended.                        *)
(***************************************************************************)
NoBody == Body("none", "absent", "absent", <<>>)
NoDate == [day |-> 0 - 1, sec |-> 0]
NullText == [fmt |-> "NULL", day |-> 0 - 1, sec |-> 0]

NoCols == [date |-> NullText, ticker |-> "", activity |-> 0, sentiment |-> 0]

\* body is the received body without its rows and last is the last of them;
\* replaced tells whether the call's statements replaced a stored row.
NoCall ==
    [op |-> "none", tickers |-> <<>>, timestamps |-> <<>>, http |-> FALSE,
     body |-> NoBody, last |-> NoCols, replaced |-> FALSE,
     exc |-> "none", msg |-> "", ticker |-> "", cutoff |-> NoDate,
     retDate |-> NoDate, retTickers |-> <<>>]

\* Client.__init__: CREATE TABLE IF NOT EXISTS rtat (...), on a fresh database.
ClientInit ==
    /\ rtat = EmptyBag
    /\ disk = EmptyBag
    /\ call = NoCall

TickerArgs == { <<>>, <<"A", "B">> }
DateArgs   == { <<>>, <<DT(T0Day), DT(T0Day + 3)>> }

\* dates = [t.strftime('%Y-%m-%d') for t in list(timestamps)]
Dates(timestamps) == [i \in 1..Len(timestamps) |-> Strftime(timestamps[i])]

\* retail_track(tickers, timestamps), the upstream answering with body.
RetailTrackCall(tickers, timestamps, body) ==
    LET dates == Dates(timestamps)
        this  == [NoCall EXCEPT !.op = "retail_track", !.tickers = tickers,
                                !.timestamps = timestamps]
    IN  IF Len(dates) <= 0
        THEN /\ call' = [this EXCEPT !.exc = "ValueError", !.msg = "no dates provided."]
             /\ UNCHANGED <<rtat, disk>>
        ELSE LET env == Envelope(body)
                 seen == [this EXCEPT !.http = TRUE, !.exc = env.exc, !.msg = env.msg,
                                      !.body = [body EXCEPT !.rows = <<>>]]
             IN  IF env.exc = "none"
                 THEN /\ rtat' = InsertAll(rtat, env.rows, 1)
                      /\ disk' = rtat'                      \* self.con.commit()
                      /\ call' = [seen EXCEPT
                             !.last = IF env.rows = <<>> THEN NoCols
                                      ELSE env.rows[Len(env.rows)],
                             !.replaced = BagCardinality(rtat') <
                                            BagCardinality(rtat) + Len(env.rows)]
                 ELSE /\ call' = seen
                      /\ UNCHANGED <<rtat, disk>>

RetailTrack ==
    \E tickers \in TickerArgs, timestamps \in DateArgs, body \in Bodies :
        /\ timestamps = <<>> => body = Body("other", "absent", "absent", <<>>)
        /\ RetailTrackCall(tickers, timestamps, body)

\* SELECT MAX(date) FROM rtat WHERE ticker = ?  (NULL when no row matches)
SqlMaxDate(tbl, ticker) ==
    LET ds == { r.date : r \in { s \in BagToSet(tbl) : s.ticker = ticker } }
    IN  IF ds = {} THEN NullText
        ELSE CHOOSE m \in ds : \A o \in ds : ~TextLess(m, o)

\* last_update(ticker)
LastUpdateResult(tbl, ticker) ==
    LET result == SqlMaxDate(tbl, ticker)
    IN  IF result = NullText
        THEN [exc |-> "none", date |-> DT(T0Day)]
        ELSE IF StrptimeOk(result)
        THEN [exc |-> "none", date |-> Strptime(result)]
        ELSE [exc |-> "ValueError", date |-> NoDate]

LastUpdate ==
    \E ticker \in Tickers :
        LET res == LastUpdateResult(rtat, ticker)
        IN  /\ call' = [NoCall EXCEPT !.op = "last_update", !.ticker = ticker,
                                      !.exc = res.exc, !.retDate = res.date,
                                      !.msg = IF res.exc = "none" THEN ""
                                              ELSE "unconverted data remains"]
            /\ UNCHANGED <<rtat, disk>>

CutoffArgs == { [day |-> d, sec |-> s] : d \in {T0Day - 1, T0Day, T0Day + 3}, s \in {0, 3600} }

\* The rows of SELECT ... FROM rtat WHERE date > ?, the datetime parameter
\* bound through the default adapter.
Newer(tbl, timestamp) ==
    { r \in BagToSet(tbl) : TextLess(AdaptDatetime(timestamp), r.date) }

\* COUNT(ticker) over those rows.
CountNewer(tbl, timestamp) ==
    BagCardinality([r \in Newer(tbl, timestamp) |-> tbl[r]])

\* list(needs_update(timestamp)) for one datetime (lines 172-173 make it a
\* list of one; lists and tuples of cutoffs are not explored): the query has no GROUP BY,
\* so it returns one row, (ticker, n); its bare ticker column is taken from an
\* arbitrary row among those counted.
NeedsUpdate ==
    \E timestamp \in CutoffArgs :
        LET n    == CountNewer(rtat, timestamp)
            this == [NoCall EXCEPT !.op = "needs_update", !.cutoff = timestamp]
        IN  /\ IF n > 0
               THEN \E r \in Newer(rtat, timestamp) :
                        call' = [this EXCEPT !.retTickers = <<r.ticker>>]
               ELSE call' = this
            /\ UNCHANGED <<rtat, disk>>

(***************************************************************************)
(* main(): the batch loop, and the upstream it talks to.                   *)
(***************************************************************************)
\* The coverage CSV: a header line, then one ticker per line.
CoverageCsvs == { <<"ticker", "A", "B">>, <<"ticker", "A", "B", "C">> }

\* ticker_coverage(): list(resp.data.decode('utf-8').splitlines())[1:]
TickerCoverage(csv) == Tail(csv)

\* itertools.batched(seq, n): consecutive chunks of n elements, the last one
\* shorter when n does not divide the length.
BatchedDropTail(seq, n) ==
    [c \in 1..(Len(seq) \div n) |-> SubSeq(seq, (c - 1) * n + 1, c * n)]
Batched(seq, n) ==
    [c \in 1..((Len(seq) + n - 1) \div n) |->
        SubSeq(seq, (c - 1) * n + 1, IF c * n < Len(seq) THEN c * n ELSE Len(seq))]

\* What the upstream holds for (day, ticker): under "partial" it has no row
\* for ticker B on the first day.
UpstreamHas(up, day, ticker) == ~(up = "partial" /\ day = T0Day /\ ticker = "B")
UpstreamCols(day, ticker) ==
    [date |-> Strftime(DT(day)), ticker |-> ticker,
     activity |-> 1 + (day % 2), sentiment |-> IF ticker = "A" THEN 1 ELSE 0 - 1]

\* The RTAT endpoint's answer to ?date=<csv>&ticker=<csv>: the rows it holds
\* for the dates and tickers asked for, the same for the same query.
RtatResponse(up, dates, tickers) ==
    LET nt    == Len(tickers)
        pairs == [p \in 1..(Len(dates) * nt) |->
                    <<dates[((p - 1) \div nt) + 1].day, tickers[((p - 1) % nt) + 1]>>]
        held  == SelectSeq(pairs, LAMBDA q : UpstreamHas(up, q[1], q[2]))
    IN  Body("dict", "dict", "list",
             [p \in 1..Len(held) |-> UpstreamCols(held[p][1], held[p][2])])

\* batched(daily(t0, t1), args.batch_size), daily() yielding datetimes
DateChunks ==
    LET days == Daily(T0Day, mT1)
    IN  Batched([i \in 1..Len(days) |-> DT(days[i])], mN)
\* batched(client.ticker_coverage(), args.batch_size)
TickerChunks == Batched(TickerCoverage(mCoverage), mN)

\* The (day, ticker) pairs one request asks for.
RequestPairs(dates, tickers) ==
    SetToBag({ <<dates[i].day, tickers[j]>> : i \in 1..Len(dates), j \in 1..Len(tickers) })

NoCrash == [n |-> 0, partial |-> FALSE, later |-> FALSE]

MainInit ==
    /\ mN \in 1..MaxBatch
    /\ mCoverage \in CoverageCsvs
    /\ mT1 \in T0Day..(T0Day + MaxSpan)
    /\ mUp \in {"full", "partial"}
    /\ mI = 1 /\ mJ = 1
    /\ mBody = <<>> /\ mK = 1
    /\ mCalls = 0
    /\ mRequested = EmptyBag
    /\ mCrashes = NoCrash
    /\ mPc = "dates"

\* for timestamps in batched(daily(t0, t1), args.batch_size): the next chunk
\* of dates, or the end of the loop and of main().
MainDates ==
    /\ mPc = "dates"
    /\ IF mI <= Len(DateChunks)
       THEN mJ' = 1 /\ mPc' = "tickers"
       ELSE mJ' = mJ /\ mPc' = "done"
    /\ UNCHANGED <<mN, mCoverage, mT1, mUp, mI, mBody, mK, mCalls, mRequested,
                   mCrashes, rtat, disk>>

\* for tickers in batched(client.ticker_coverage(), args.batch_size): the next
\* chunk of tickers, and retail_track up to rows = map(Row, body): the request
\* for the pair of chunks and the parse of its envelope.  The upstream of
\* main() answers every request with a well-formed body, so neither raise
\* of retail_track is taken here.
MainFetch ==
    /\ mPc = "tickers"
    /\ mJ <= Len(TickerChunks)
    /\ LET timestamps == DateChunks[mI]
           tickers    == TickerChunks[mJ]
           dates      == Dates(timestamps)
           env        == Envelope(RtatResponse(mUp, dates, tickers))
       IN  /\ Len(dates) > 0
           /\ env.exc = "none"
           /\ mCalls' = mCalls + 1
           /\ mRequested' = mRequested (+) RequestPairs(dates, tickers)
           /\ mBody' = env.rows
    /\ mK' = 1
    /\ mPc' = "insert"
    /\ UNCHANGED <<mN, mCoverage, mT1, mUp, mI, mJ, mCrashes, rtat, disk>>

\* The ticker chunks are exhausted: back to the loop over the date chunks.
MainTickersEnd ==
    /\ mPc = "tickers"
    /\ mJ > Len(TickerChunks)
    /\ mI' = mI + 1
    /\ mPc' = "dates"
    /\ UNCHANGED <<mN, mCoverage, mT1, mUp, mJ, mBody, mK, mCalls, mRequested,
                   mCrashes, rtat, disk>>

\* One turn of for row in rows: one INSERT OR REPLACE, not yet committed.
MainInsert ==
    /\ mPc = "insert"
    /\ mK <= Len(mBody)
    /\ rtat' = InsertOrReplace(rtat, Bind(Row(mBody[mK])))
    /\ mK' = mK + 1
    /\ UNCHANGED <<mN, mCoverage, mT1, mUp, mI, mJ, mBody, mCalls, mRequested,
                   mCrashes, mPc, disk>>

\* self.con.commit(); retail_track returns and the inner loop goes on.
MainCommit ==
    /\ mPc = "insert"
    /\ mK > Len(mBody)
    /\ disk' = rtat
    /\ mJ' = mJ + 1
    /\ mPc' = "tickers"
    /\ UNCHANGED <<mN, mCoverage, mT1, mUp, mI, mBody, mK, mCalls, mRequested,
                   mCrashes, rtat>>

\* The process dies and main() is run again over the same range: the
\* uncommitted writes are rolled back when the database is reopened.  mCrashes
\* keeps the number of interrupted runs, whether one of them died with
\* uncommitted writes, and whether one died after a committed batch.
MainCrash ==
    /\ mPc \in {"dates", "tickers", "insert"}
    /\ mCrashes.n < MaxCrashes
    /\ mCrashes' = [n       |-> mCrashes.n + 1,
                    partial |-> mCrashes.partial \/ rtat # disk,
                    later   |-> mCrashes.later \/ mCalls > 1 \/ (mCalls = 1 /\ mPc # "insert")]
    /\ rtat' = disk
    /\ mI' = 1 /\ mJ' = 1
    /\ mBody' = <<>> /\ mK' = 1
    /\ mCalls' = 0
    /\ mRequested' = EmptyBag
    /\ mPc' = "dates"
    /\ UNCHANGED <<mN, mCoverage, mT1, mUp, disk>>

(***************************************************************************)
(* Specifications: daily() alone, the calls on one Client, and main().     *)
(***************************************************************************)
DailyIdle ==
    /\ dStart = 0 /\ dEnd = 0 /\ dT = 0 /\ dOut = <<>> /\ dPc = "done"
MainIdle ==
    /\ mN = 1 /\ mCoverage = <<"ticker">> /\ mT1 = T0Day /\ mUp = "full"
    /\ mI = 1 /\ mJ = 1 /\ mBody = <<>> /\ mK = 1 /\ mCalls = 0
    /\ mRequested = EmptyBag /\ mCrashes = NoCrash /\ mPc = "done"

InitDaily == DailyInit /\ ClientInit /\ MainIdle
DailyNext ==
    \/ DailyYield /\ UNCHANGED <<storeVars, mainVars>>
    \/ DailyReturn /\ UNCHANGED <<storeVars, mainVars>>
SpecDaily == InitDaily /\ [][DailyNext]_vars

InitStore == DailyIdle /\ ClientInit /\ MainIdle
StoreNext ==
    \/ RetailTrack /\ UNCHANGED <<dailyVars, mainVars>>
    \/ LastUpdate /\ UNCHANGED <<dailyVars, mainVars>>
    \/ NeedsUpdate /\ UNCHANGED <<dailyVars, mainVars>>
SpecStore == InitStore /\ [][StoreNext]_vars

InitMain == DailyIdle /\ ClientInit /\ MainInit
MainNext ==
    \/ MainDates /\ UNCHANGED <<dailyVars, call>>
    \/ MainFetch /\ UNCHANGED <<dailyVars, call>>
    \/ MainTickersEnd /\ UNCHANGED <<dailyVars, call>>
    \/ MainInsert /\ UNCHANGED <<dailyVars, call>>
    \/ MainCommit /\ UNCHANGED <<dailyVars, call>>
    \/ MainCrash /\ UNCHANGED <<dailyVars, call>>
SpecMain == InitMain /\ [][MainNext]_vars

Spec == SpecMain

(***************************************************************************)
(* The claims.                                                             *)
(***************************************************************************)
UniqueKeys(tbl) ==
    \A r \in BagToSet(tbl) :
        /\ CopiesIn(r, tbl) = 1
        /\ \A s \in BagToSet(tbl) : SameKey(r, s) => r = s

\* C1: after any sequence of retail_track calls the rtat table holds at most
\* one row per (date, ticker), and the row stored for the key of the last
\* record a call wrote carries that record's activity and sentiment, whatever
\* was stored for the key before.
C1_UpsertOneRowPerKey ==
    /\ UniqueKeys(rtat)
    /\ UniqueKeys(disk)
    /\ (call.op = "retail_track" /\ call.exc = "none" /\ call.last # NoCols)
          => CopiesIn(Bind(Row(call.last)), rtat) = 1

\* A retail_track call has replaced a stored row, and the table holds other
\* keys besides.
C1_Witness ==
    /\ call.op = "retail_track" /\ call.exc = "none"
    /\ call.replaced
    /\ CopiesIn(Bind(Row(call.last)), rtat) = 1
    /\ BagCardinality(rtat) >= 2

\* The table one uninterrupted run of main() over the whole range leaves.
RECURSIVE RunFrom(_, _, _)
RunFrom(tbl, i, j) ==
    IF i > Len(DateChunks) THEN tbl
    ELSE IF j > Len(TickerChunks) THEN RunFrom(tbl, i + 1, 1)
    ELSE RunFrom(InsertAll(tbl,
                           Envelope(RtatResponse(mUp, Dates(DateChunks[i]),
                                                 TickerChunks[j])).rows, 1),
                 i, j + 1)
UninterruptedRun == RunFrom(EmptyBag, 1, 1)

\* C2: when main() completes, after any number of runs interrupted between or
\* within batches and re-run over the same range, the committed table is the
\* one an uninterrupted run leaves.
C2_RerunSameFinalTable ==
    mPc = "done" => (disk = UninterruptedRun /\ rtat = disk)

\* main() has completed after a run that died with uncommitted writes and a
\* run that died after a committed batch.
C2_Witness ==
    /\ mPc = "done"
    /\ mCrashes.n >= 1 /\ mCrashes.partial /\ mCrashes.later
    /\ BagCardinality(disk) >= 2

RowsOf(tbl, ticker) == { r \in BagToSet(tbl) : r.ticker = ticker }
LatestDay(tbl, ticker) ==
    CHOOSE d \in { r.date.day : r \in RowsOf(tbl, ticker) } :
        \A r \in RowsOf(tbl, ticker) : r.date.day <= d

\* C3: last_update(T) returns t0 when the table holds no row for T, and the
\* latest date stored for T otherwise.
C3_LastUpdateReturnsLatest ==
    call.op = "last_update" =>
        /\ call.exc = "none"
        /\ call.retDate = IF RowsOf(rtat, call.ticker) = {} THEN DT(T0Day)
                          ELSE DT(LatestDay(rtat, call.ticker))

CeilDiv(a, n) == IF a % n = 0 THEN a \div n ELSE (a \div n) + 1

\* C4: when main() completes, every chunk has at most N elements, retail_track
\* was called ceil(|D|/N) * ceil(|T|/N) times, and every (date, ticker) of
\* D x T was asked for in exactly one call, and nothing else was asked for.
C4_OneCallPerChunkPair ==
    LET D == Daily(T0Day, mT1)
        T == TickerCoverage(mCoverage)
    IN  /\ \A c \in 1..Len(DateChunks) : Len(DateChunks[c]) \in 1..mN
        /\ \A c \in 1..Len(TickerChunks) : Len(TickerChunks[c]) \in 1..mN
        /\ mPc = "done" =>
             /\ mCalls = CeilDiv(Len(D), mN) * CeilDiv(Len(T), mN)
             /\ \A i \in 1..Len(D), j \in 1..Len(T) :
                    CopiesIn(<<D[i], T[j]>>, mRequested) = 1
             /\ BagCardinality(mRequested) = Len(D) * Len(T)

\* Tickers {A, B}, dates {2016-01-15, 2016-01-18}, N = 1: 4 calls.
C4_Witness ==
    /\ mPc = "done"
    /\ mN = 1
    /\ TickerCoverage(mCoverage) = <<"A", "B">>
    /\ Daily(T0Day, mT1) = <<T0Day, T0Day + 3>>
    /\ mCalls = 4

\* C5: daily() never yields a Saturday or a Sunday, and the dates it yields
\* are strictly increasing.
C5_NoWeekendStrictlyIncreasing ==
    \A i \in 1..Len(dOut) :
        /\ Weekday(dOut[i]) \notin {5, 6}
        /\ i > 1 => dOut[i - 1] < dOut[i]

\* daily() started on a Saturday and has run over a later weekend too.
C5_Witness ==
    /\ dPc = "done"
    /\ Weekday(dStart) = 5
    /\ \E i \in 2..Len(dOut) : dOut[i] - dOut[i - 1] = 3

BusinessDays(a, b) == { d \in a..b : Weekday(d) \notin {5, 6} }

\* C6: for start <= end, daily(start, end) yields exactly the Monday-Friday
\* dates d with start <= d <= end, in increasing order.
C6_ExactlyTheBusinessDays ==
    (dPc = "done" /\ dStart <= dEnd) =>
        /\ { dOut[i] : i \in 1..Len(dOut) } = BusinessDays(dStart, dEnd)
        /\ Len(dOut) = Cardinality(BusinessDays(dStart, dEnd))
        /\ \A i \in 2..Len(dOut) : dOut[i - 1] < dOut[i]

\* C7: retail_track with no tickers or no dates raises ValueError and issues
\* no HTTP request.
C7_EmptyArgumentsRejected ==
    (call.op = "retail_track" /\ (call.tickers = <<>> \/ call.timestamps = <<>>)) =>
        (call.exc = "ValueError" /\ ~call.http)

\* C8: a body without 'datatable', or whose 'datatable' has no 'data', makes
\* retail_track raise ValueError.
C8_MalformedEnvelopeRaisesValueError ==
    (/\ call.op = "retail_track" /\ call.http /\ call.body.top = "dict"
     /\ \/ call.body.datatable = "absent"
        \/ call.body.datatable = "dict" /\ call.body.data = "absent")
    => call.exc = "ValueError"

\* A stored row is newer than the cutoff, as datetimes.
IsNewer(r, cutoff) ==
    r.date.day > cutoff.day \/ (r.date.day = cutoff.day /\ r.date.sec > cutoff.sec)

\* C9: needs_update(cutoff) returns exactly the tickers that have a stored row
\* newer than the cutoff.
C9_NeedsUpdateAllNewerTickers ==
    call.op = "needs_update" =>
        { call.retTickers[i] : i \in 1..Len(call.retTickers) }
            = { r.ticker : r \in { s \in BagToSet(rtat) : IsNewer(s, call.cutoff) } }

\* C10 as stated: daily(start, end) with start > end ends with an error.
C10_ReversedRangeRaises ==
    (dStart > dEnd /\ dPc # "loop") => dPc = "raised"

\* C10 as the code has it: with start > end the loop condition fails at once,
\* so daily() yields nothing and returns without an error.
C10_ReversedRangeYieldsNothing ==
    dStart > dEnd =>
        /\ dOut = <<>>
        /\ dT = dStart
        /\ dPc \in {"loop", "done"}
        /\ dPc = "loop" => ~(dT <= dEnd)

\* daily() has returned for a reversed range.
C10_Witness ==
    dStart > dEnd + 1 /\ dPc = "done" /\ dOut = <<>>

====
